---- MODULE Spec2Model ----
(***************************************************************************)
(* Stock availability and reservation engine of saleor/warehouse:          *)
(* reservations.py (reserve_stocks) and availability.py (availability      *)
(* reads).  Time is counted in seconds.                                     *)
(***************************************************************************)
EXTENDS Integers, Sequences, FiniteSets, TLC

(***************************************************************************)
(* Bounds of the model.                                                     *)
(***************************************************************************)
MaxQty == 2
MaxReq == 3
MaxBatch == 2
MaxTime == 600
MaxKeys == 3
TickStep == 600

(***************************************************************************)
(* Program constant: RESERVATION_TTL = timedelta(seconds=15 * 60).          *)
(***************************************************************************)
RESERVATION_TTL == 15 * 60

(***************************************************************************)
(* The fixed catalogue: variants, checkout lines, stocks and the countries  *)
(* their warehouses serve.                                                  *)
(***************************************************************************)
Variants == {"va", "vb", "vu"}
track_inventory(v) == v # "vu"

CheckoutLines == {"l1", "l2", "l3", "l4"}
LineVariant(l) ==
    CASE l = "l1" -> "va"
      [] l = "l2" -> "va"
      [] l = "l3" -> "vb"
      [] OTHER    -> "vu"

Countries == {"US", "PL"}
StockIds == 1..4
product_variant(s) ==
    CASE s = 1 -> "va"
      [] s = 2 -> "va"
      [] s = 3 -> "vb"
      [] OTHER -> "vu"
StockCountries(s) ==
    CASE s = 2 -> {"US", "PL"}
      [] s = 3 -> {"PL"}
      [] OTHER -> {"US"}

\* The products the variants belong to.
Products == {"pa", "pu"}
variant_product(v) == IF v = "vu" THEN "pu" ELSE "pa"

Procs == {"p1", "p2"}

Max(a, b) == IF a >= b THEN a ELSE b
Min(a, b) == IF a <= b THEN a ELSE b

RECURSIVE SumOf(_)
\* SQL Sum over a set of <<row, value>> pairs: the sum of the values.
SumOf(S) ==
    IF S = {} THEN 0
    ELSE LET x == CHOOSE y \in S : TRUE
         IN x[2] + SumOf(S \ {x})

Range(seq) == {seq[i] : i \in 1..Len(seq)}

\* Every order in which the rows of S can come back from an unordered query.
Orders(S) ==
    {q \in [1..Cardinality(S) -> S] : \A i, j \in 1..Cardinality(S) : i # j => q[i] # q[j]}

VARIABLES
    quantity,       \* Stock.quantity, by stock pk
    allocations,    \* Allocation rows [id, stock, quantity_allocated]
    reservations,   \* Reservation rows [checkout_line, stock, quantity_reserved, reserved_until]
    now,            \* timezone.now()
    pc,             \* per invocation: "idle", "locking", "done"
    batch,          \* checkout_lines_info of the invocation: Seq of [line, quantity]
    country,        \* country_code of the invocation
    toLock,         \* the rows of the SELECT ... FOR UPDATE, in locking order
    nlocked,        \* how many of them the invocation has locked
    outcome,        \* how the invocation ended
    faults,         \* the InsufficientStock items it raised
    created,        \* the Reservation rows it inserted
    deleted,        \* the Reservation rows it deleted
    read            \* the availability read a caller made last, with its result

vars == <<quantity, allocations, reservations, now, pc, batch, country, toLock,
          nlocked, outcome, faults, created, deleted, read>>


(***************************************************************************)
(* Queryset methods of warehouse/models.py, as the specification describes  *)
(* them (candidate stocks of a country, expiry, exclusion of lines).        *)
(***************************************************************************)
\* Stock.objects.for_country(country_code)
for_country(stocks, country_code) ==
    {s \in stocks : country_code \in StockCountries(s)}

\* Reservation.objects.not_expired(): reserved_until has not passed
not_expired(rows, t) == {r \in rows : r.reserved_until > t}

\* Reservation.objects.exclude_checkout_lines(checkout_lines)
exclude_checkout_lines(rows, checkout_lines) ==
    {r \in rows : r.checkout_line \notin checkout_lines}

\* dict.get(key, 0) and defaultdict(int)[key]
DictGet(d, k) == IF k \in DOMAIN d THEN d[k] ELSE 0
EmptyDict == [k \in {} |-> 0]

(***************************************************************************)
(* reservations.py                                                          *)
(***************************************************************************)
\* The expiry the data model describes: creation time plus the TTL.
ExpiresAfterTTL(t) == t + RESERVATION_TTL

\* reservations.py:173  timezone.now() - RESERVATION_TTL
_get_expiration_datetime(t) == t - RESERVATION_TTL

\* A reserve_stocks that keeps every line, whatever its variant.
EveryLine(checkout_lines_info) == checkout_lines_info

\* reservations.py:162  lines whose variant tracks inventory, in order
get_checkout_lines_with_track_inventory(checkout_lines_info) ==
    SelectSeq(checkout_lines_info,
              LAMBDA line_info : track_inventory(LineVariant(line_info.line)))

\* reservations.py:33-37  the variants of the tracked lines
BatchVariants(lines_info) == {LineVariant(lines_info[i].line) : i \in 1..Len(lines_info)}
\* reservations.py:33-37  the lines of the tracked lines
BatchLines(lines_info) == {lines_info[i].line : i \in 1..Len(lines_info)}

\* A locking query without for_country: the stocks of the variants anywhere.
StocksAnywhere(variants, country_code) ==
    {s \in StockIds : product_variant(s) \in variants}

\* A locking query without the filter on the variants: every stock of the
\* country.
StocksOfEveryVariant(variants, country_code) == for_country(StockIds, country_code)

\* reservations.py:39-42  the candidate Stock rows of the variants in the country
CandidateStocks(variants, country_code) ==
    {s \in for_country(StockIds, country_code) : product_variant(s) \in variants}

RECURSIVE SortByPk(_)
SortByPk(S) ==
    IF S = {} THEN <<>>
    ELSE LET m == CHOOSE x \in S : \A y \in S : x <= y
         IN <<m>> \o SortByPk(S \ {m})

\* The locking query without its order_by: the rows as storage yields them.
AsStored(rows) == rows

\* reservations.py:43  .order_by("pk"): the rows in ascending stock identity,
\* whatever order storage yields them in
OrderByPk(rows) == SortByPk(Range(rows))

\* reservations.py:46  stocks_id is a generator over the rows: its first consumer
\* (the Allocation query, line 53) receives every id, and any later consumer
\* (the Reservation query, line 67) receives none.
stocks_id(stocks, consumed) == IF consumed THEN {} ELSE Range(stocks)

\* reservations.py:51-58  Allocation rows of the stocks, summed by stock
quantity_allocation_list(ids, allocs) ==
    LET rows == {a \in allocs : a.stock \in ids /\ a.quantity_allocated > 0}
    IN {[stock |-> s,
         quantity_allocated_sum |->
             SumOf({<<a, a.quantity_allocated>> : a \in {b \in rows : b.stock = s}})] :
        s \in {a.stock : a \in rows}}

\* reservations.py:59-63
quantity_allocation_for_stocks(alloc_list) ==
    [s \in {a.stock : a \in alloc_list} |->
        SumOf({<<a, a.quantity_allocated_sum>> : a \in {b \in alloc_list : b.stock = s}})]

\* A baseline that counts every live reservation, the batch's own included.
AllLiveReservations(ids, checkout_lines, rows, t) ==
    LET live == not_expired({r \in rows : r.quantity_reserved > 0}, t)
    IN {[stock |-> s,
         quantity_reserved_sum |->
             SumOf({<<r, r.quantity_reserved>> : r \in {x \in live : x.stock = s}})] :
        s \in {r.stock : r \in live}}

\* reservations.py:65-74  live Reservation rows of the stocks held by other
\* checkout lines, summed by stock
quantity_reservation_list(ids, checkout_lines, rows, t) ==
    LET live == exclude_checkout_lines(
                    not_expired({r \in rows : r.stock \in ids /\ r.quantity_reserved > 0}, t),
                    checkout_lines)
    IN {[stock |-> s,
         quantity_reserved_sum |->
             SumOf({<<r, r.quantity_reserved>> : r \in {x \in live : x.stock = s}})] :
        s \in {r.stock : r \in live}}

\* reservations.py:75-79  every sum is added under allocation["stock"], the
\* loop variable the allocation loop left behind (last_allocation), which is
\* unbound when that loop never ran.
quantity_reservation_for_stocks(reservation_list, last_allocation) ==
    IF reservation_list = {} THEN [error |-> FALSE, dict |-> EmptyDict]
    ELSE IF last_allocation = 0 THEN [error |-> TRUE, dict |-> EmptyDict]
    ELSE [error |-> FALSE,
          dict  |-> [s \in {last_allocation} |->
                        SumOf({<<r, r.quantity_reserved_sum>> : r \in reservation_list})]]

\* The values the loop variable `allocation` can have after the loop of lines
\* 60-63: the stock of the last row of the (unordered) list, 0 when unbound.
LastAllocationChoices(alloc_list) ==
    IF alloc_list = {} THEN {0} ELSE {a.stock : a \in alloc_list}

\* reservations.py:127-132
quantity_available_in_stock(stock_quantity, allocated_in_stock, reserved_in_stock) ==
    Max(stock_quantity - allocated_in_stock - reserved_in_stock, 0)

RECURSIVE StockLoop(_, _, _, _, _, _, _, _)
\* reservations.py:119-151  the loop over the stocks of the line's variant
StockLoop(line_info, stocks, qty, alloc_dict, reserv_dict, i, quantity_reserved, acc) ==
    IF i > Len(stocks)
    THEN [returned |-> FALSE, quantity_reserved |-> quantity_reserved, reservations |-> acc]
    ELSE
      LET pk == stocks[i]
          available == quantity_available_in_stock(
                           qty[pk], DictGet(alloc_dict, pk), DictGet(reserv_dict, pk))
          quantity_to_reserve == Min(line_info.quantity - quantity_reserved, available)
      IN IF quantity_to_reserve > 0
         THEN LET acc2 == Append(acc, [stock |-> pk, quantity_reserved |-> quantity_to_reserve])
                  reserved2 == quantity_reserved + quantity_to_reserve
              IN IF reserved2 = line_info.quantity
                 THEN [returned |-> TRUE, quantity_reserved |-> reserved2,
                       reservations |-> acc2]
                 ELSE StockLoop(line_info, stocks, qty, alloc_dict, reserv_dict,
                                i + 1, reserved2, acc2)
         ELSE StockLoop(line_info, stocks, qty, alloc_dict, reserv_dict,
                        i + 1, quantity_reserved, acc)

\* reservations.py:109-159  returns (insufficient_stock, reservations), or
\* nothing at all (None) when the loop ends with the quantity already met.
_create_reservations(line_info, stocks, qty, alloc_dict, reserv_dict, insufficient_stock, t) ==
    LET r == StockLoop(line_info, stocks, qty, alloc_dict, reserv_dict, 1, 0, <<>>)
        rows == {[checkout_line    |-> line_info.line,
                  stock            |-> r.reservations[k].stock,
                  quantity_reserved |-> r.reservations[k].quantity_reserved,
                  reserved_until   |-> _get_expiration_datetime(t)] :
                 k \in 1..Len(r.reservations)}
    IN IF r.returned
       THEN [none |-> FALSE, insufficient_stock |-> insufficient_stock, reservations |-> rows]
       ELSE IF r.quantity_reserved # line_info.quantity
       THEN [none |-> FALSE,
             insufficient_stock |->
                 Append(insufficient_stock,
                        [variant |-> LineVariant(line_info.line),
                         checkout_line |-> line_info.line]),
             reservations |-> {}]
       ELSE [none |-> TRUE, insufficient_stock |-> insufficient_stock, reservations |-> {}]

\* reservations.py:81-84  the locked stocks of one variant, in locking order
variant_to_stocks(stocks, variant) ==
    SelectSeq(stocks, LAMBDA pk : product_variant(pk) = variant)

RECURSIVE LineLoop(_, _, _, _, _, _, _, _, _)
\* reservations.py:88-98  one _create_reservations per tracked line; unpacking
\* its result fails with a TypeError when it returned None.
LineLoop(lines_info, i, stocks, qty, alloc_dict, reserv_dict, insufficient_stock, acc, t) ==
    IF i > Len(lines_info)
    THEN [type_error |-> FALSE, insufficient_stock |-> insufficient_stock,
          reservations |-> acc]
    ELSE
      LET line_info == lines_info[i]
          r == _create_reservations(
                   line_info, variant_to_stocks(stocks, LineVariant(line_info.line)),
                   qty, alloc_dict, reserv_dict, insufficient_stock, t)
      IN IF r.none
         THEN [type_error |-> TRUE, insufficient_stock |-> insufficient_stock,
               reservations |-> acc]
         ELSE LineLoop(lines_info, i + 1, stocks, qty, alloc_dict, reserv_dict,
                       r.insufficient_stock, acc \cup r.reservations, t)

\* A commit that leaves the rows of the batch's lines in place.
DeleteNothing(rows, checkout_lines) == rows

\* A delete without the filter on the checkout lines: every row goes.
DeleteEveryRow(rows, checkout_lines) == {}

\* reservations.py:105  Reservation.objects.filter(checkout_line__in=...).delete()
DeleteCheckoutLines(rows, checkout_lines) ==
    {r \in rows : r.checkout_line \notin checkout_lines}

\* reservations.py:106  Reservation.objects.bulk_create(reservations)
bulk_create(rows, new_rows) == rows \cup new_rows

\* reservations.py:103-105  the rows the delete() of a call removes
DeletedRows(rows, checkout_lines, new_rows) ==
    IF new_rows # {} /\ checkout_lines # {}
    THEN rows \ DeleteCheckoutLines(rows, checkout_lines)
    ELSE {}

\* reservations.py:103-106  the writes of a call that found no shortfall
CommitReservations(rows, checkout_lines, new_rows) ==
    IF new_rows # {}
    THEN bulk_create(IF checkout_lines # {}
                     THEN DeleteCheckoutLines(rows, checkout_lines)
                     ELSE rows,
                     new_rows)
    ELSE rows

NoEffect(kind, rows) ==
    [outcome |-> kind, faults |-> <<>>, created |-> {}, deleted |-> {},
     reservations |-> rows]

\* reservations.py:22-106  the body of reserve_stocks once its locks are held:
\* stocks are the locked rows in locking order, last_allocation the stock of
\* the row the allocation loop ended on, rows the Reservation table.
reserve_stocks(checkout_lines_info, stocks, last_allocation, qty, allocs, rows, t) ==
    LET lines_info == get_checkout_lines_with_track_inventory(checkout_lines_info)
        checkout_lines == BatchLines(lines_info)
        alloc_list == quantity_allocation_list(stocks_id(stocks, FALSE), allocs)
        alloc_dict == quantity_allocation_for_stocks(alloc_list)
        reserv_list == quantity_reservation_list(
                           stocks_id(stocks, TRUE), checkout_lines, rows, t)
        reserv == quantity_reservation_for_stocks(reserv_list, last_allocation)
        r == LineLoop(lines_info, 1, stocks, qty, alloc_dict, reserv.dict, <<>>, {}, t)
    IN IF Len(lines_info) = 0 THEN NoEffect("ok", rows)
       ELSE IF reserv.error THEN NoEffect("UnboundLocalError", rows)
       ELSE IF r.type_error THEN NoEffect("TypeError", rows)
       ELSE IF Len(r.insufficient_stock) > 0
       THEN [outcome |-> "InsufficientStock", faults |-> r.insufficient_stock,
             created |-> {}, deleted |-> {}, reservations |-> rows]
       ELSE [outcome |-> "ok", faults |-> <<>>, created |-> r.reservations,
             deleted |-> DeletedRows(rows, checkout_lines, r.reservations),
             reservations |-> CommitReservations(rows, checkout_lines, r.reservations)]

(***************************************************************************)
(* availability.py                                                          *)
(***************************************************************************)
\* Stock.objects.get_variant_stocks_for_country(country_code, variant)
get_variant_stocks_for_country(country_code, variant) ==
    {s \in for_country(StockIds, country_code) : product_variant(s) = variant}

\* A reserved quantity that ignores the exclusion list.
ReservedOfEveryLine(stocks, checkout_lines, rows, t) ==
    SumOf({<<r, r.quantity_reserved>> : r \in not_expired({x \in rows : x.stock \in stocks}, t)})

\* A reserved quantity that keeps counting a row after its hold ran out.
ReservedOfAllTime(stocks, checkout_lines, rows, t) ==
    SumOf({<<r, r.quantity_reserved>> :
              r \in exclude_checkout_lines({x \in rows : x.stock \in stocks}, checkout_lines)})

\* availability.py:121-135
get_reserved_quantity(stocks, checkout_lines, rows, t) ==
    LET live == exclude_checkout_lines(
                    not_expired({r \in rows : r.stock \in stocks}, t), checkout_lines)
    IN SumOf({<<r, r.quantity_reserved>> : r \in live})

\* availability.py:16-27  the aggregate runs over the join of the stocks with
\* their allocations: Sum("quantity", distinct=True) adds each distinct
\* quantity value once, Sum of the allocations adds every allocation row.
_get_available_quantity(stocks, checkout_lines, qty, allocs, rows, t) ==
    LET total_quantity == SumOf({<<v, v>> : v \in {qty[s] : s \in stocks}})
        quantity_allocated ==
            SumOf({<<a, a.quantity_allocated>> : a \in {b \in allocs : b.stock \in stocks}})
        quantity_reserved == get_reserved_quantity(stocks, checkout_lines, rows, t)
    IN Max(total_quantity - quantity_allocated - quantity_reserved, 0)

\* availability.py:101-110
get_available_quantity(variant, country_code, checkout_lines, qty, allocs, rows, t) ==
    LET stocks == get_variant_stocks_for_country(country_code, variant)
    IN IF stocks = {} THEN 0
       ELSE _get_available_quantity(stocks, checkout_lines, qty, allocs, rows, t)

\* StockQuerySet.annotate_available_quantity(): the quantity of the stock
\* minus the sum of its allocations
annotate_available_quantity(s, qty, allocs) ==
    qty[s] - SumOf({<<a, a.quantity_allocated>> : a \in {b \in allocs : b.stock = s}})

\* Stock.objects.get_product_stocks_for_country(country_code, product)
get_product_stocks_for_country(country_code, product) ==
    {s \in for_country(StockIds, country_code) :
        variant_product(product_variant(s)) = product}

\* availability.py:113-118  any() over the annotated values of the stocks: a
\* value counts when it is not zero.
is_product_in_stock(product, country_code, qty, allocs) ==
    LET stocks == get_product_stocks_for_country(country_code, product)
    IN \E s \in stocks : annotate_available_quantity(s, qty, allocs) # 0

\* availability.py:30-47  the InsufficientStock items raised, <<>> when the
\* check returns normally
check_stock_quantity(variant, country_code, requested, checkout_lines, qty, allocs, rows, t) ==
    IF ~track_inventory(variant) THEN <<>>
    ELSE LET stocks == get_variant_stocks_for_country(country_code, variant)
         IN IF stocks = {}
            THEN <<[variant |-> variant]>>
            ELSE IF requested > _get_available_quantity(stocks, checkout_lines, qty,
                                                        allocs, rows, t)
            THEN <<[variant |-> variant]>>
            ELSE <<>>

\* availability.py:138-163  live reservations of the stocks held by lines
\* not excluded, summed by the variant of their stock
get_reserved_quantity_bulk(stocks, checkout_lines, rows, t) ==
    IF stocks = {} THEN EmptyDict
    ELSE
      LET live == exclude_checkout_lines(
                      not_expired({r \in rows : r.stock \in stocks}, t), checkout_lines)
          result == {[stock_id |-> s,
                      quantity_reserved |->
                          SumOf({<<r, r.quantity_reserved>> : r \in {x \in live : x.stock = s}})] :
                     s \in {r.stock : r \in live}}
      IN [v \in {product_variant(x.stock_id) : x \in result} |->
             SumOf({<<x, x.quantity_reserved>> :
                       x \in {y \in result : product_variant(y.stock_id) = v}})]

RECURSIVE BulkLoopByDemand(_, _, _, _, _, _, _, _)
\* A loop that names a variant only when the quantity asked exceeds what is
\* available.
BulkLoopByDemand(variants, quantities, i, all_variants_stocks, variant_reservations, qty, allocs, insufficient_stocks) ==
    IF i > Min(Len(variants), Len(quantities)) THEN insufficient_stocks
    ELSE
      LET variant == variants[i]
          stocks == {s \in all_variants_stocks : product_variant(s) = variant}
          available_quantity ==
              Max(SumOf({<<s, annotate_available_quantity(s, qty, allocs)>> : s \in stocks})
                      - DictGet(variant_reservations, variant), 0)
          item == [variant |-> variant, available_quantity |-> available_quantity]
          short == IF track_inventory(variant) /\ quantities[i] > available_quantity
                   THEN Append(insufficient_stocks, item)
                   ELSE insufficient_stocks
      IN BulkLoopByDemand(variants, quantities, i + 1, all_variants_stocks,
                          variant_reservations, qty, allocs, short)

RECURSIVE BulkLoop(_, _, _, _, _, _, _, _)
\* availability.py:74-95  the loop over zip(variants, quantities)
BulkLoop(variants, quantities, i, all_variants_stocks, variant_reservations, qty, allocs, insufficient_stocks) ==
    IF i > Min(Len(variants), Len(quantities)) THEN insufficient_stocks
    ELSE
      LET variant == variants[i]
          requested == quantities[i]
          stocks == {s \in all_variants_stocks : product_variant(s) = variant}
          available_quantity ==
              Max(SumOf({<<s, annotate_available_quantity(s, qty, allocs)>> : s \in stocks})
                      - DictGet(variant_reservations, variant), 0)
          item == [variant |-> variant, available_quantity |-> available_quantity]
          no_stocks == IF stocks = {}
                       THEN Append(insufficient_stocks, item)
                       ELSE insufficient_stocks
          short == IF track_inventory(variant) /\ requested > available_quantity
                   THEN Append(no_stocks, item)
                   ELSE no_stocks
      IN BulkLoop(variants, quantities, i + 1, all_variants_stocks, variant_reservations,
                  qty, allocs, short)

\* availability.py:50-98  the InsufficientStock items raised, <<>> when the
\* check returns normally
check_stock_quantity_bulk(variants, country_code, quantities, checkout_lines, qty, allocs, rows, t) ==
    LET all_variants_stocks ==
            {s \in for_country(StockIds, country_code) : product_variant(s) \in Range(variants)}
        variant_reservations ==
            get_reserved_quantity_bulk(all_variants_stocks, checkout_lines, rows, t)
    IN BulkLoop(variants, quantities, 1, all_variants_stocks, variant_reservations,
                qty, allocs, <<>>)

(***************************************************************************)
(* The state machine.  Spec: a caller runs reserve_stocks for one request   *)
(* at a time, each call one atomic transaction, while the clock advances.   *)
(* BatchSpec: one call with a batch of several requests, or of exempt       *)
(* requests only, on every initial table.                                   *)
(* ConcSpec: the invocations of Procs run concurrently, each one            *)
(* transaction that locks its stock rows one after the other, runs its      *)
(* body, and releases the locks when it commits or rolls back.  FairSpec:   *)
(* ConcSpec with the fairness of the lock manager.  ReadSpec: callers make  *)
(* availability reads, each a lock-free snapshot, while the clock advances. *)
(***************************************************************************)
LineInfos == [line : CheckoutLines, quantity : 0..MaxReq]

\* The batches of up to MaxBatch requests of distinct lines, drawn from infos.
BatchesOf(infos) ==
    {b \in UNION {[1..n -> infos] : n \in 0..MaxBatch} :
        \A i, j \in 1..Len(b) : i # j => b[i].line # b[j].line}

\* The batches of a checkout of at most one line.
CallBatches == {<<>>} \cup {<<line_info>> : line_info \in LineInfos}

\* The batches of several requests, each for at least one unit.
SeveralRequests ==
    {b \in BatchesOf({line_info \in LineInfos : line_info.quantity >= 1}) : Len(b) >= 2}

\* The batches whose requests are all for variants that do not track inventory.
ExemptBatches ==
    BatchesOf({line_info \in LineInfos : ~track_inventory(LineVariant(line_info.line))})
        \ {<<>>}

\* The requests of the concurrent invocations: tracked lines asking for MaxQty.
ConcInfos ==
    {line_info \in LineInfos :
        line_info.quantity = MaxQty /\ track_inventory(LineVariant(line_info.line))}

\* The batches of the concurrent invocations.
ConcBatches == BatchesOf(ConcInfos)

\* The batches of the invocations whose termination is checked: one shopper's
\* line of each variant.
FairBatches == BatchesOf({line_info \in ConcInfos : line_info.line \in {"l1", "l3"}})

\* Stock rows locked by invocation p
Held(p) == {toLock[p][i] : i \in 1..nlocked[p]}

AllocationChoices ==
    SUBSET {[id |-> 1, stock |-> 1, quantity_allocated |-> 1],
            [id |-> 2, stock |-> 2, quantity_allocated |-> 1]}

\* Rows another shopper's checkout line holds when the model starts, their
\* hold running until the clock reaches TickStep.
InitialRows ==
    [checkout_line : {"l2"}, stock : 1..2, quantity_reserved : 1..MaxQty,
     reserved_until : {TickStep}]

\* Rows the checkout lines hold before a batch call, their hold running.
BatchRows ==
    [checkout_line : {"l1", "l2"}, stock : 1..2, quantity_reserved : 1..MaxQty,
     reserved_until : {TickStep}]

AllocatedIn(s, allocs) ==
    SumOf({<<a, a.quantity_allocated>> : a \in {b \in allocs : b.stock = s}})
LiveReservedIn(s, rows, t) ==
    SumOf({<<r, r.quantity_reserved>> : r \in not_expired({x \in rows : x.stock = s}, t)})

\* Data model, core invariant: allocations plus live reservations of a stock
\* do not exceed its quantity.
NotOversold(s) ==
    AllocatedIn(s, allocations) + LiveReservedIn(s, reservations, now) <= quantity[s]

\* No availability read has been made.
NoRead ==
    [op |-> "none", variants |-> <<>>, country |-> "US", quantities |-> <<>>,
     checkout_lines |-> {}, value |-> 0, raised |-> <<>>, product |-> "none",
     in_stock |-> FALSE]

InitProcs ==
    /\ pc = [p \in Procs |-> "idle"]
    /\ batch = [p \in Procs |-> <<>>]
    /\ country = [p \in Procs |-> "US"]
    /\ toLock = [p \in Procs |-> <<>>]
    /\ nlocked = [p \in Procs |-> 0]
    /\ outcome = [p \in Procs |-> "none"]
    /\ faults = [p \in Procs |-> <<>>]
    /\ created = [p \in Procs |-> {}]
    /\ deleted = [p \in Procs |-> {}]
    /\ read = NoRead

Init ==
    /\ quantity \in {q \in [StockIds -> 0..MaxQty] :
                        q[2] = MaxQty /\ q[3] = MaxQty /\ q[4] = MaxQty}
    /\ allocations \in AllocationChoices
    /\ reservations \in {R \in SUBSET InitialRows : Cardinality(R) <= 1}
    /\ now = 0
    /\ \A s \in StockIds : NotOversold(s)
    /\ InitProcs

InitBatch ==
    /\ quantity = [s \in StockIds |-> MaxQty]
    /\ allocations \in AllocationChoices
    /\ reservations \in {R \in SUBSET BatchRows :
                            /\ Cardinality(R) <= 2
                            /\ \A r1, r2 \in R : r1.checkout_line = r2.checkout_line => r1 = r2}
    /\ now = 0
    /\ \A s \in StockIds : NotOversold(s)
    /\ InitProcs

InitConc ==
    /\ quantity = [s \in StockIds |-> MaxQty]
    /\ allocations = {}
    /\ reservations = {}
    /\ now = 0
    /\ InitProcs

\* The stock of the row the allocation loop of lines 60-63 ended on (0 when
\* the loop never ran); the loop of lines 76-79 reads it only when it runs.
LastAllocations(stocks, checkout_lines_info) ==
    IF quantity_reservation_list(
           stocks_id(stocks, TRUE),
           BatchLines(get_checkout_lines_with_track_inventory(checkout_lines_info)),
           reservations, now) = {}
    THEN {0}
    ELSE LastAllocationChoices(quantity_allocation_list(Range(stocks), allocations))

\* The rows of the locking query of lines 39-45, as storage yields them
StorageOrders(checkout_lines_info, country_code) ==
    LET lines_info == get_checkout_lines_with_track_inventory(checkout_lines_info)
    IN IF Len(lines_info) = 0 THEN {<<>>}
       ELSE Orders(CandidateStocks(BatchVariants(lines_info), country_code))

\* reservations.py:22-106  one whole call, as one transaction
ReserveStocksOf(p, inputs) ==
    /\ pc[p] \in {"idle", "done"}
    /\ \E b \in inputs, cc \in {"US"} :
         \E storage \in StorageOrders(b, cc) :
           \E last_allocation \in LastAllocations(OrderByPk(storage), b) :
             \E r \in {reserve_stocks(b, OrderByPk(storage), last_allocation,
                                      quantity, allocations, reservations, now)} :
                /\ batch' = [batch EXCEPT ![p] = b]
                /\ country' = [country EXCEPT ![p] = cc]
                /\ toLock' = [toLock EXCEPT ![p] = OrderByPk(storage)]
                /\ reservations' = r.reservations
                /\ outcome' = [outcome EXCEPT ![p] = r.outcome]
                /\ faults' = [faults EXCEPT ![p] = r.faults]
                /\ created' = [created EXCEPT ![p] = r.created]
                /\ deleted' = [deleted EXCEPT ![p] = r.deleted]
    /\ pc' = [pc EXCEPT ![p] = "done"]
    /\ UNCHANGED <<quantity, allocations, now, nlocked, read>>

ReserveStocks(p) == ReserveStocksOf(p, CallBatches)
\* The first call of a caller, with a batch of several requests
ReserveBatch(p) == pc[p] = "idle" /\ ReserveStocksOf(p, SeveralRequests)
\* The first call of a caller, with requests of exempt variants only
ReserveExempt(p) == pc[p] = "idle" /\ ReserveStocksOf(p, ExemptBatches)

\* reservations.py:22-45  a caller enters reserve_stocks: the transaction
\* begins and, unless no line tracks inventory, the locking query is issued.
Enter(p, inputs) ==
    /\ pc[p] \in {"idle", "done"}
    /\ \E b \in inputs, cc \in Countries :
         \E storage \in StorageOrders(b, cc) :
           /\ batch' = [batch EXCEPT ![p] = b]
           /\ country' = [country EXCEPT ![p] = cc]
           /\ toLock' = [toLock EXCEPT ![p] = OrderByPk(storage)]
    /\ pc' = [pc EXCEPT ![p] = "locking"]
    /\ nlocked' = [nlocked EXCEPT ![p] = 0]
    /\ outcome' = [outcome EXCEPT ![p] = "none"]
    /\ faults' = [faults EXCEPT ![p] = <<>>]
    /\ created' = [created EXCEPT ![p] = {}]
    /\ deleted' = [deleted EXCEPT ![p] = {}]
    /\ UNCHANGED <<quantity, allocations, reservations, now, read>>

Call(p) == Enter(p, ConcBatches)
CallFair(p) == Enter(p, FairBatches)

\* reservations.py:40  select_for_update: the next row is locked once no other
\* transaction holds it.
AcquireLock(p) ==
    /\ pc[p] = "locking"
    /\ nlocked[p] < Len(toLock[p])
    /\ \A q \in Procs \ {p} : toLock[p][nlocked[p] + 1] \notin Held(q)
    /\ nlocked' = [nlocked EXCEPT ![p] = @ + 1]
    /\ UNCHANGED <<quantity, allocations, reservations, now, pc, batch, country,
                   toLock, outcome, faults, created, deleted, read>>

\* reservations.py:46-106  with every lock held the body runs and the
\* transaction ends (commit, or rollback on an exception), releasing the locks.
Run(p) ==
    /\ pc[p] = "locking"
    /\ nlocked[p] = Len(toLock[p])
    /\ \E last_allocation \in LastAllocations(toLock[p], batch[p]) :
         \E r \in {reserve_stocks(batch[p], toLock[p], last_allocation,
                                  quantity, allocations, reservations, now)} :
            /\ reservations' = r.reservations
            /\ outcome' = [outcome EXCEPT ![p] = r.outcome]
            /\ faults' = [faults EXCEPT ![p] = r.faults]
            /\ created' = [created EXCEPT ![p] = r.created]
            /\ deleted' = [deleted EXCEPT ![p] = r.deleted]
    /\ pc' = [pc EXCEPT ![p] = "done"]
    /\ nlocked' = [nlocked EXCEPT ![p] = 0]
    /\ UNCHANGED <<quantity, allocations, now, batch, country, toLock, read>>

\* The clock advances.
Tick ==
    /\ now < MaxTime
    /\ now' = now + TickStep
    /\ UNCHANGED <<quantity, allocations, reservations, pc, batch, country, toLock,
                   nlocked, outcome, faults, created, deleted, read>>

Next ==
    \/ ReserveStocks("p1")
    \/ Tick

Spec == Init /\ [][Next]_vars

NextBatch ==
    \/ ReserveBatch("p1")
    \/ ReserveExempt("p1")

BatchSpec == InitBatch /\ [][NextBatch]_vars

\* The exclusion lists a reader passes (None is the empty list).
ReadLines == SUBSET {"l1", "l2"}

\* The (variants, quantities) a bulk check is asked about: none, one, or two
\* distinct variants, each with a quantity.
BulkInputs ==
    LET pairs == Variants \X (0..MaxReq)
    IN {<<>>} \cup {<<vq>> : vq \in pairs}
              \cup {<<pq[1], pq[2]>> : pq \in {x \in pairs \X pairs : x[1][1] # x[2][1]}}

ReadAllocations ==
    {A \in SUBSET {[id |-> 1, stock |-> 1, quantity_allocated |-> 1],
                   [id |-> 2, stock |-> 2, quantity_allocated |-> 1],
                   [id |-> 3, stock |-> 2, quantity_allocated |-> 1]} :
        \A a \in A : a.id = 3 => \E b \in A : b.id = 2}

InitRead ==
    /\ quantity \in {q \in [StockIds -> 0..MaxQty] :
                        q[2] = MaxQty /\ q[3] = MaxQty /\ q[4] = MaxQty}
    /\ allocations \in ReadAllocations
    /\ reservations \in {R \in SUBSET BatchRows :
                            /\ Cardinality(R) <= 2
                            /\ \A r1, r2 \in R : r1.checkout_line = r2.checkout_line => r1 = r2}
    /\ now = 0
    /\ \A s \in StockIds : NotOversold(s)
    /\ InitProcs

\* availability.py:101-110  a caller reads the available quantity
GetAvailableQuantity ==
    /\ read.op = "none"
    /\ \E variant \in Variants, country_code \in Countries, checkout_lines \in ReadLines :
          read' = [op |-> "get_available_quantity", variants |-> <<variant>>,
                   country |-> country_code, quantities |-> <<>>,
                   checkout_lines |-> checkout_lines,
                   value |-> get_available_quantity(variant, country_code, checkout_lines,
                                                    quantity, allocations, reservations, now),
                   raised |-> <<>>, product |-> "none", in_stock |-> FALSE]
    /\ UNCHANGED <<quantity, allocations, reservations, now, pc, batch, country, toLock,
                   nlocked, outcome, faults, created, deleted>>

\* availability.py:30-47  a caller checks one variant
CheckStockQuantity ==
    /\ read.op = "none"
    /\ \E variant \in Variants, country_code \in Countries, requested \in 0..MaxReq,
          checkout_lines \in ReadLines :
          read' = [op |-> "check_stock_quantity", variants |-> <<variant>>,
                   country |-> country_code, quantities |-> <<requested>>,
                   checkout_lines |-> checkout_lines, value |-> 0,
                   raised |-> check_stock_quantity(variant, country_code, requested,
                                                   checkout_lines, quantity, allocations,
                                                   reservations, now),
                   product |-> "none", in_stock |-> FALSE]
    /\ UNCHANGED <<quantity, allocations, reservations, now, pc, batch, country, toLock,
                   nlocked, outcome, faults, created, deleted>>

\* availability.py:50-98  a caller checks several variants at once
CheckStockQuantityBulk ==
    /\ read.op = "none"
    /\ \E vq \in BulkInputs, country_code \in Countries, checkout_lines \in ReadLines :
          LET variants == [i \in 1..Len(vq) |-> vq[i][1]]
              quantities == [i \in 1..Len(vq) |-> vq[i][2]]
          IN read' = [op |-> "check_stock_quantity_bulk", variants |-> variants,
                      country |-> country_code, quantities |-> quantities,
                      checkout_lines |-> checkout_lines, value |-> 0,
                      raised |-> check_stock_quantity_bulk(variants, country_code, quantities,
                                                           checkout_lines, quantity,
                                                           allocations, reservations, now),
                      product |-> "none", in_stock |-> FALSE]
    /\ UNCHANGED <<quantity, allocations, reservations, now, pc, batch, country, toLock,
                   nlocked, outcome, faults, created, deleted>>

\* availability.py:113-118  a caller asks whether a product is in stock
IsProductInStock ==
    /\ read.op = "none"
    /\ \E product \in Products, country_code \in Countries :
          read' = [NoRead EXCEPT !.op = "is_product_in_stock",
                                 !.product = product,
                                 !.country = country_code,
                                 !.in_stock = is_product_in_stock(product, country_code,
                                                                  quantity, allocations)]
    /\ UNCHANGED <<quantity, allocations, reservations, now, pc, batch, country, toLock,
                   nlocked, outcome, faults, created, deleted>>

\* The caller is done with the result of its read.
Forget ==
    /\ read.op # "none"
    /\ read' = NoRead
    /\ UNCHANGED <<quantity, allocations, reservations, now, pc, batch, country, toLock,
                   nlocked, outcome, faults, created, deleted>>

NextRead ==
    \/ GetAvailableQuantity
    \/ CheckStockQuantity
    \/ CheckStockQuantityBulk
    \/ IsProductInStock
    \/ Forget
    \/ (read.op = "none" /\ Tick)

ReadSpec == InitRead /\ [][NextRead]_vars

\* Rows whose hold runs out just before the clock's next step.
ExpiringRows ==
    [checkout_line : {"l1", "l2"}, stock : 1..2, quantity_reserved : 1..MaxQty,
     reserved_until : {TickStep - 1}]

InitExpiry ==
    /\ quantity = [s \in StockIds |-> MaxQty]
    /\ allocations = {}
    /\ reservations \in {R \in SUBSET ExpiringRows :
                            /\ Cardinality(R) <= 2
                            /\ \A r1, r2 \in R : r1.checkout_line = r2.checkout_line => r1 = r2}
    /\ now = 0
    /\ \A s \in StockIds : NotOversold(s)
    /\ InitProcs

\* Time passes; a caller that has not reserved yet reads; callers reserve.
NextExpiry ==
    \/ (read.op = "none" /\ Tick)
    \/ (pc["p1"] = "idle" /\ GetAvailableQuantity)
    \/ (pc["p1"] = "idle" /\ CheckStockQuantity)
    \/ (pc["p1"] = "idle" /\ CheckStockQuantityBulk)
    \/ Forget
    \/ (read.op = "none" /\ ReserveStocks("p1"))

ExpirySpec == InitExpiry /\ [][NextExpiry]_vars

(***************************************************************************)
(* graphql/product/dataloaders/products.py: the loaders keyed by an id and  *)
(* a channel.                                                               *)
(***************************************************************************)
\* The Channel rows and the listing tables the loaders query.
ChannelRows == {[id |-> 1, slug |-> "c1"], [id |-> 2, slug |-> "c2"]}
ProductChannelListing ==
    {[product_id |-> "pa", channel_id |-> 1], [product_id |-> "pa", channel_id |-> 2],
     [product_id |-> "pu", channel_id |-> 1]}
ProductVariantChannelListing ==
    {[variant_id |-> "va", channel_id |-> 1, price_amount_isnull |-> FALSE],
     [variant_id |-> "va", channel_id |-> 2, price_amount_isnull |-> TRUE],
     [variant_id |-> "vb", channel_id |-> 2, price_amount_isnull |-> FALSE]}
None == [none |-> TRUE]

RECURSIVE GroupByChannel(_, _, _)
\* products.py:88-92, 256-260  the loop that splits the keys by channel: a
\* dict from channel to the list of ids, in insertion order
GroupByChannel(keys, i, groups) ==
    IF i > Len(keys) THEN groups
    ELSE LET id == keys[i][1]
             channel == keys[i][2]
             at == {g \in 1..Len(groups) : groups[g].channel = channel}
         IN GroupByChannel(keys, i + 1,
                IF at = {}
                THEN Append(groups, [channel |-> channel, ids |-> <<id>>])
                ELSE [g \in 1..Len(groups) |->
                         IF g \in at THEN [groups[g] EXCEPT !.ids = Append(@, id)]
                         ELSE groups[g]])

\* A split that opens a list for every key.
OneListPerKey(keys) ==
    [i \in 1..Len(keys) |-> [channel |-> keys[i][2], ids |-> <<keys[i][1]>>]]

\* products.py:88-92
product_channel_listing_by_channel(keys) == GroupByChannel(keys, 1, <<>>)

\* products.py:256-260
variant_channel_listing_by_channel(keys) == GroupByChannel(keys, 1, <<>>)

\* A lookup that matches the id and takes the pair of any channel.
ByIdInAnyChannel(loads, key) ==
    LET at == CHOOSE x \in {y \in (1..Len(loads)) \X (1..(MaxKeys + 1)) :
                               /\ y[2] <= Len(loads[y[1]].pairs)
                               /\ loads[y[1]].pairs[y[2]][1] = key[1]} : TRUE
    IN loads[at[1]].pairs[at[2]][2]

\* The value stored under (id, channel) by the loops of lines 98-106, 266-272
ByIdAndChannel(loads, key) ==
    LET at == CHOOSE x \in {y \in (1..Len(loads)) \X (1..(MaxKeys + 1)) :
                               /\ y[2] <= Len(loads[y[1]].pairs)
                               /\ loads[y[1]].query.channel = key[2]
                               /\ loads[y[1]].pairs[y[2]][1] = key[1]} : TRUE
    IN loads[at[1]].pairs[at[2]][2]

\* products.py:110-127  one query for the listings of the products in the
\* channel, then a pair (id, listing or None) per id asked
ProductListing_batch_load_channel(channel_slug, products_ids) ==
    LET product_channel_listings ==
            {l \in ProductChannelListing :
                /\ \E c \in ChannelRows : c.id = l.channel_id /\ c.slug = channel_slug
                /\ l.product_id \in Range(products_ids)}
        get(id) == IF \E l \in product_channel_listings : l.product_id = id
                   THEN CHOOSE l \in product_channel_listings : l.product_id = id
                   ELSE None
    IN [query |-> [channel |-> channel_slug, ids |-> products_ids],
        pairs |-> [i \in 1..Len(products_ids) |-> <<products_ids[i], get(products_ids[i])>>]]

\* products.py:86-108  the queries issued and the list returned
ProductListing_batch_load(keys) ==
    LET by_channel == product_channel_listing_by_channel(keys)
        loads == [g \in 1..Len(by_channel) |->
                     ProductListing_batch_load_channel(by_channel[g].channel,
                                                       by_channel[g].ids)]
    IN [queries |-> [g \in 1..Len(loads) |-> loads[g].query],
        result |-> [i \in 1..Len(keys) |-> ByIdAndChannel(loads, keys[i])]]

\* products.py:276-297  one query for the priced listings of the variants in
\* the channel, the channel matched on the column the subclass names in field
VariantListing_batch_load_channel(field, channel, variant_ids) ==
    LET variant_channel_listings ==
            {l \in ProductVariantChannelListing :
                /\ \E c \in ChannelRows : c.id = l.channel_id /\ c[field] = channel
                /\ l.variant_id \in Range(variant_ids)
                /\ ~l.price_amount_isnull}
        get(id) == IF \E l \in variant_channel_listings : l.variant_id = id
                   THEN CHOOSE l \in variant_channel_listings : l.variant_id = id
                   ELSE None
    IN [query |-> [channel |-> channel, ids |-> variant_ids],
        pairs |-> [i \in 1..Len(variant_ids) |-> <<variant_ids[i], get(variant_ids[i])>>]]

\* products.py:255-274  the queries issued and the list returned
VariantListing_batch_load(field, keys) ==
    LET by_channel == variant_channel_listing_by_channel(keys)
        loads == [g \in 1..Len(by_channel) |->
                     VariantListing_batch_load_channel(field, by_channel[g].channel,
                                                       by_channel[g].ids)]
    IN [queries |-> [g \in 1..Len(loads) |-> loads[g].query],
        result |-> [i \in 1..Len(keys) |-> ByIdAndChannel(loads, keys[i])]]

\* The key batches a loader is handed: up to MaxKeys keys, repeats allowed.
KeyBatches(ids, channels) == UNION {[1..n -> ids \X channels] : n \in 0..MaxKeys}

\* The column the subclasses of the variant loader match the channel on
\* (products.py:304, 311).
LoaderFields == {"slug", "id"}

InitLoader ==
    /\ quantity = [s \in StockIds |-> MaxQty]
    /\ allocations = {}
    /\ reservations = {}
    /\ now = 0
    /\ InitProcs

\* products.py:86-108  ProductChannelListingByProductIdAndChannelSlugLoader
LoadProductChannelListings ==
    /\ read.op = "none"
    /\ \E keys \in KeyBatches(Products, {c.slug : c \in ChannelRows}) :
          \E r \in {ProductListing_batch_load(keys)} :
             read' = [op |-> "ProductChannelListingByProductIdAndChannelSlugLoader",
                      field |-> "slug", keys |-> keys, queries |-> r.queries,
                      result |-> r.result]
    /\ UNCHANGED <<quantity, allocations, reservations, now, pc, batch, country, toLock,
                   nlocked, outcome, faults, created, deleted>>

\* products.py:255-274  VariantChannelListingByVariantIdAndChannelLoader
LoadVariantChannelListings ==
    /\ read.op = "none"
    /\ \E field \in LoaderFields :
          \E keys \in KeyBatches(Variants, {c[field] : c \in ChannelRows}) :
             \E r \in {VariantListing_batch_load(field, keys)} :
                read' = [op |-> "VariantChannelListingByVariantIdAndChannelLoader",
                         field |-> field, keys |-> keys, queries |-> r.queries,
                         result |-> r.result]
    /\ UNCHANGED <<quantity, allocations, reservations, now, pc, batch, country, toLock,
                   nlocked, outcome, faults, created, deleted>>

NextLoader ==
    \/ LoadProductChannelListings
    \/ LoadVariantChannelListings
    \/ Forget

LoaderSpec == InitLoader /\ [][NextLoader]_vars

NextConc ==
    \/ \E p \in Procs : Call(p)
    \/ \E p \in Procs : AcquireLock(p)
    \/ \E p \in Procs : Run(p)

ConcSpec == InitConc /\ [][NextConc]_vars

\* The step that ends the transaction of p; in FairSpec exactly the Run(p) steps.
Completes(p) ==
    /\ pc[p] = "locking"
    /\ nlocked[p] = Len(toLock[p])
    /\ pc' = [pc EXCEPT ![p] = "done"]

NextFair ==
    \/ \E p \in Procs : CallFair(p)
    \/ \E p \in Procs : AcquireLock(p)
    \/ \E p \in Procs : Run(p)

\* The lock manager queues the transactions that wait for a row, so a
\* transaction whose next row is free again and again gets it; a transaction
\* holding all its locks runs its body and ends.
FairSpec ==
    /\ InitConc
    /\ [][NextFair]_vars
    /\ \A p \in Procs : SF_nlocked(AcquireLock(p)) /\ WF_pc(Completes(p))

(***************************************************************************)
(* The vocabulary of the specification, over the state of the model.       *)
(***************************************************************************)
\* A step of Spec or BatchSpec in which the caller's reserve_stocks call runs.
Returns == pc'["p1"] = "done" /\ now' = now

LinesOf(b) == {b[i].line : i \in 1..Len(b)}
TrackedLinesOf(b) == {l \in LinesOf(b) : track_inventory(LineVariant(l))}
RowsOfLine(rows, l) == {r \in rows : r.checkout_line = l}
ReservedIn(rows, s) ==
    SumOf({<<r, r.quantity_reserved>> : r \in {x \in rows : x.stock = s}})
PerStock(rows) == [s \in StockIds |-> ReservedIn(rows, s)]

\* 4.3 step 3: the live reservations of a stock held by lines outside the batch
ReservedBaseline(s, lines) ==
    ReservedIn(not_expired(exclude_checkout_lines(reservations, lines), now), s)

\* 4.3 step 5: availableHere = max(quantity - allocated - reservedBaseline, 0)
AvailableHere(s, lines) ==
    Max(quantity[s] - AllocatedIn(s, allocations) - ReservedBaseline(s, lines), 0)

\* 4.3 steps 1, 5, 6: the request is untracked, or the candidate stocks of its
\* variant hold the requested quantity between them
Satisfiable(line_info, country_code, lines) ==
    \/ ~track_inventory(LineVariant(line_info.line))
    \/ SumOf({<<s, AvailableHere(s, lines)>> :
                 s \in CandidateStocks({LineVariant(line_info.line)}, country_code)})
           >= line_info.quantity

\* The InsufficientStock entry of a request
FaultOf(line_info) ==
    [variant |-> LineVariant(line_info.line), checkout_line |-> line_info.line]

(***************************************************************************)
(* C1.  Oversell invariant: for every stock, allocations plus non-expired   *)
(* reservations stay within Stock.quantity after any sequence of            *)
(* reserve_stocks calls, with time advancing.                               *)
(***************************************************************************)
OversellInvariant == \A s \in StockIds : NotOversold(s)

\* A call succeeded on a stock where another line holds a live reservation,
\* and the rows of that stock now add up to more than the stock holds.
OversellWitness ==
    /\ outcome["p1"] = "ok"
    /\ \E r \in created["p1"], o \in not_expired(reservations, now) :
          /\ o.checkout_line # r.checkout_line
          /\ o.stock = r.stock
          /\ AllocatedIn(r.stock, allocations) + ReservedIn(reservations, r.stock)
                 > quantity[r.stock]

(***************************************************************************)
(* C2.  Two invocations for different checkout lines that contend for one   *)
(* stock serialize, the second counting the first's reservations: the rows  *)
(* the two create on a stock sum to at most max(quantity - allocated, 0).   *)
(* Stated for invocations of one request each.                              *)
(***************************************************************************)
ContendingCallsShareStock ==
    \A p, q \in Procs :
        (/\ p # q
         /\ outcome[p] = "ok"
         /\ outcome[q] = "ok"
         /\ Len(batch[p]) = 1
         /\ Len(batch[q]) = 1
         /\ batch[p][1].line # batch[q][1].line)
        => \A s \in StockIds :
              ReservedIn(created[p] \cup created[q], s)
                  <= Max(quantity[s] - AllocatedIn(s, allocations), 0)

(***************************************************************************)
(* C3.  All-or-nothing: when a request of the batch cannot be fully         *)
(* satisfied, the call raises InsufficientStock and the Reservation rows    *)
(* are what they were before the call.                                      *)
(***************************************************************************)
AllOrNothing ==
    [][(/\ Returns
        /\ \E i \in 1..Len(batch'["p1"]) :
              ~Satisfiable(batch'["p1"][i], country'["p1"], TrackedLinesOf(batch'["p1"])))
       => (outcome'["p1"] = "InsufficientStock" /\ reservations' = reservations)]_vars

(***************************************************************************)
(* C4.  Every row a successful call creates has reserved_until = time of    *)
(* the call + 15 minutes, more than a minute ahead, and so is not expired   *)
(* right after the call.                                                    *)
(***************************************************************************)
CreatedRowsExpireAfterTTL ==
    [][(Returns /\ outcome'["p1"] = "ok")
       => \A r \in created'["p1"] :
             /\ r.reserved_until = now + RESERVATION_TTL
             /\ r.reserved_until > now + 60
             /\ r \in not_expired(reservations', now')]_vars

(***************************************************************************)
(* C5.  A successful reservation is a live hold: when a line holding        *)
(* nothing reserves q <= a units, a being get_available_quantity before,    *)
(* get_available_quantity is a - q right after the call, and a when the     *)
(* line is excluded.                                                        *)
(***************************************************************************)
HoldVisibleToOthers ==
    [][(/\ Returns
        /\ outcome'["p1"] = "ok"
        /\ Len(batch'["p1"]) = 1)
       => LET line_info == batch'["p1"][1]
              variant == LineVariant(line_info.line)
              a == get_available_quantity(variant, country'["p1"], {}, quantity,
                                          allocations, reservations, now)
          IN (/\ track_inventory(variant)
              /\ RowsOfLine(reservations, line_info.line) = {}
              /\ line_info.quantity <= a)
             => /\ get_available_quantity(variant, country'["p1"], {}, quantity',
                                          allocations', reservations', now')
                    = a - line_info.quantity
                /\ get_available_quantity(variant, country'["p1"], {line_info.line},
                                          quantity', allocations', reservations', now')
                    = a]_vars

(***************************************************************************)
(* C6.  Deadlock freedom: every invocation takes its row locks in ascending *)
(* stock identity, and every invocation that has begun ends, committed or   *)
(* with InsufficientStock, however the stock sets of the invocations        *)
(* overlap.                                                                 *)
(***************************************************************************)
LocksAscend ==
    \A p \in Procs : \A i, j \in 1..Len(toLock[p]) : i < j => toLock[p][i] < toLock[p][j]

Terminates ==
    \A p \in Procs :
        (pc[p] = "locking")
            ~> (pc[p] = "done" /\ outcome[p] \in {"ok", "InsufficientStock"})

DeadlockFreedom == []LocksAscend /\ Terminates

\* An invocation waits for a row another invocation has locked, while holding
\* a row itself.
DeadlockFreedomWitness ==
    \E p, q \in Procs :
        /\ p # q
        /\ pc[p] = "locking"
        /\ nlocked[p] < Len(toLock[p])
        /\ toLock[p][nlocked[p] + 1] \in Held(q)
        /\ Cardinality(Range(toLock[p]) \cap Range(toLock[q])) >= 2

(***************************************************************************)
(* C7.  Supersede: after a successful call, every row a line of the batch   *)
(* held before is deleted, the line's rows are exactly the rows the call    *)
(* computed, and the line has at most one row per stock.                    *)
(***************************************************************************)
Supersede ==
    [][(Returns /\ outcome'["p1"] = "ok")
       => \A l \in LinesOf(batch'["p1"]) :
             /\ RowsOfLine(reservations, l) \subseteq deleted'["p1"]
             /\ RowsOfLine(reservations', l) = RowsOfLine(created'["p1"], l)
             /\ \A r1, r2 \in RowsOfLine(reservations', l) :
                   r1.stock = r2.stock => r1 = r2]_vars

\* A line holding q on a stock reserved q again: its old row is gone and one
\* row, on the same stock, remains.
SupersedeWitness ==
    /\ outcome["p1"] = "ok"
    /\ \E old \in deleted["p1"], new \in created["p1"] :
          /\ batch["p1"] = <<[line |-> old.checkout_line, quantity |-> old.quantity_reserved]>>
          /\ old # new
          /\ new.stock = old.stock
          /\ RowsOfLine(reservations, old.checkout_line) = {new}

(***************************************************************************)
(* C8.  Re-reservation is idempotent and never self-penalising: the same    *)
(* call made again after a success succeeds again and leaves the same       *)
(* per-stock quantities for its lines; a line with a live hold of q on a    *)
(* stock whose availability without that hold is exactly q reserves q       *)
(* again successfully.                                                      *)
(***************************************************************************)
ReReservationIdempotent ==
    [][Returns
       => /\ (outcome["p1"] = "ok" /\ batch'["p1"] = batch["p1"])
             => /\ outcome'["p1"] = "ok"
                /\ \A l \in LinesOf(batch["p1"]) :
                      PerStock(RowsOfLine(reservations', l))
                          = PerStock(RowsOfLine(reservations, l))
          /\ \A r \in not_expired(reservations, now) :
                (/\ batch'["p1"] = <<[line |-> r.checkout_line,
                                      quantity |-> r.quantity_reserved]>>
                 /\ AvailableHere(r.stock, {r.checkout_line}) = r.quantity_reserved)
                => outcome'["p1"] = "ok"]_vars

\* A line with a live hold of q, on a stock with exactly q free without that
\* hold, reserved q again.
ReReservationWitness ==
    /\ outcome["p1"] = "ok"
    /\ \E r \in deleted["p1"] :
          /\ r.reserved_until > now
          /\ batch["p1"] = <<[line |-> r.checkout_line, quantity |-> r.quantity_reserved]>>
          /\ AvailableHere(r.stock, {r.checkout_line}) = r.quantity_reserved
          /\ PerStock(created["p1"]) = PerStock({r})

(***************************************************************************)
(* C9.  The InsufficientStock fault carries exactly one entry, variant and  *)
(* checkout line, for each request that cannot be fully satisfied, and none *)
(* for a request that can.                                                  *)
(***************************************************************************)
FaultListsEveryShortfall ==
    [][(Returns /\ outcome'["p1"] = "InsufficientStock")
       => \A i \in 1..Len(batch'["p1"]) :
             Cardinality({k \in 1..Len(faults'["p1"]) :
                             faults'["p1"][k] = FaultOf(batch'["p1"][i])})
                 = IF Satisfiable(batch'["p1"][i], country'["p1"],
                                  TrackedLinesOf(batch'["p1"]))
                   THEN 0 ELSE 1]_vars

(***************************************************************************)
(* C10.  For every batch with quantities >= 0, a call ends in success or    *)
(* in the InsufficientStock fault, never in another error.                  *)
(***************************************************************************)
OnlySuccessOrInsufficientStock ==
    outcome["p1"] \in {"none", "ok", "InsufficientStock"}

(***************************************************************************)
(* C11.  Exempt variants: a request whose variant does not track inventory  *)
(* never gets a reservation and never causes a fault, whatever the stock    *)
(* and the quantity; a batch of such requests only returns without locking  *)
(* a stock row and without changing a Reservation row.                      *)
(***************************************************************************)
ExemptVariants ==
    [][Returns
       => /\ \A r \in created'["p1"] : track_inventory(LineVariant(r.checkout_line))
          /\ \A k \in 1..Len(faults'["p1"]) : track_inventory(faults'["p1"][k].variant)
          /\ outcome'["p1"] \in {"ok", "InsufficientStock"}
          /\ TrackedLinesOf(batch'["p1"]) = {}
                => /\ outcome'["p1"] = "ok"
                   /\ toLock'["p1"] = <<>>
                   /\ reservations' = reservations]_vars

\* A call with a request of an untracked variant, which has stock in the
\* country, and a request of a tracked one reserved for the tracked one only.
ExemptVariantsWitness ==
    /\ outcome["p1"] = "ok"
    /\ created["p1"] # {}
    /\ \E i \in 1..Len(batch["p1"]) :
          /\ ~track_inventory(LineVariant(batch["p1"][i].line))
          /\ CandidateStocks({LineVariant(batch["p1"][i].line)}, country["p1"]) # {}
          /\ RowsOfLine(reservations, batch["p1"][i].line) = {}

(***************************************************************************)
(* C12.  A request of a positive quantity for a tracked variant without a   *)
(* candidate stock in the country makes reserve_stocks raise                *)
(* InsufficientStock naming that line, the ordinary shortfall, and write    *)
(* nothing.                                                                 *)
(***************************************************************************)
NoStockIsShortfall ==
    [][Returns
       => \A i \in 1..Len(batch'["p1"]) :
             LET line_info == batch'["p1"][i]
             IN (/\ track_inventory(LineVariant(line_info.line))
                 /\ line_info.quantity > 0
                 /\ get_variant_stocks_for_country(country'["p1"],
                                                   LineVariant(line_info.line)) = {})
                => /\ outcome'["p1"] = "InsufficientStock"
                   /\ faults'["p1"] = <<FaultOf(line_info)>>
                   /\ created'["p1"] = {}
                   /\ reservations' = reservations]_vars

\* A call for a tracked variant without stock in the country raised
\* InsufficientStock, while another line's reservation is in the table.
NoStockIsShortfallWitness ==
    /\ outcome["p1"] = "InsufficientStock"
    /\ Len(batch["p1"]) = 1
    /\ batch["p1"][1].quantity > 0
    /\ track_inventory(LineVariant(batch["p1"][1].line))
    /\ get_variant_stocks_for_country(country["p1"], LineVariant(batch["p1"][1].line)) = {}
    /\ reservations # {}

(***************************************************************************)
(* The vocabulary of the specification for the availability reads.          *)
(***************************************************************************)
\* A step in which a caller makes an availability read.
ReadStep == read.op = "none" /\ read'.op # "none"

\* 4.1: totalQuantity, allocatedQuantity, reservedQuantity, availableQuantity
TotalQuantity(stocks) == SumOf({<<s, quantity[s]>> : s \in stocks})
AllocatedQuantity(stocks) ==
    SumOf({<<a, a.quantity_allocated>> : a \in {b \in allocations : b.stock \in stocks}})
ReservedQuantity(stocks, rows, lines) ==
    SumOf({<<r, r.quantity_reserved>> :
              r \in {x \in rows : /\ x.stock \in stocks
                                  /\ x.reserved_until > now
                                  /\ x.checkout_line \notin lines}})
LedgerAvailable(stocks, rows, lines) ==
    Max(TotalQuantity(stocks) - AllocatedQuantity(stocks)
            - ReservedQuantity(stocks, rows, lines), 0)

\* 4.2: the stocks of the variant serving the country, and getAvailableQuantity
StocksFor(variant, country_code) ==
    {s \in StockIds : product_variant(s) = variant /\ country_code \in StockCountries(s)}
AvailableQuantity(variant, country_code, rows, lines) ==
    IF StocksFor(variant, country_code) = {} THEN 0
    ELSE LedgerAvailable(StocksFor(variant, country_code), rows, lines)

(***************************************************************************)
(* C13.  For every set of candidate stocks, stocks of equal quantity and    *)
(* stocks with several allocations included, and every exclusion list,      *)
(* get_available_quantity returns max(T - A - R, 0): T the sum of the       *)
(* quantities, A of the allocations, R of the live reservations not         *)
(* excluded; never negative, and 0 without candidate stocks.                *)
(***************************************************************************)
AvailableIsLedger ==
    [][(ReadStep /\ read'.op = "get_available_quantity")
       => /\ read'.value = AvailableQuantity(read'.variants[1], read'.country,
                                             reservations, read'.checkout_lines)
          /\ read'.value >= 0
          /\ StocksFor(read'.variants[1], read'.country) = {} => read'.value = 0]_vars

(***************************************************************************)
(* C14.  Exclusion: the reservations of the checkout lines a reader         *)
(* excludes are never counted by get_available_quantity,                    *)
(* check_stock_quantity or check_stock_quantity_bulk: the read gives what   *)
(* it would give, without exclusions, if those reservations did not exist,  *)
(* and availability with exclusions is never below availability without.    *)
(***************************************************************************)
WithoutLines(rows, lines) == {r \in rows : r.checkout_line \notin lines}

ExcludedNeverCounted ==
    [][ReadStep
       => LET rest == WithoutLines(reservations, read'.checkout_lines)
          IN /\ read'.op = "get_available_quantity"
                  => /\ read'.value =
                            get_available_quantity(read'.variants[1], read'.country, {},
                                                   quantity, allocations, rest, now)
                     /\ read'.value >=
                            get_available_quantity(read'.variants[1], read'.country, {},
                                                   quantity, allocations, reservations, now)
             /\ read'.op = "check_stock_quantity"
                  => /\ read'.raised =
                            check_stock_quantity(read'.variants[1], read'.country,
                                                 read'.quantities[1], {}, quantity,
                                                 allocations, rest, now)
                     /\ check_stock_quantity(read'.variants[1], read'.country,
                                             read'.quantities[1], {}, quantity,
                                             allocations, reservations, now) = <<>>
                            => read'.raised = <<>>
             /\ read'.op = "check_stock_quantity_bulk"
                  => /\ read'.raised =
                            check_stock_quantity_bulk(read'.variants, read'.country,
                                                      read'.quantities, {}, quantity,
                                                      allocations, rest, now)
                     /\ check_stock_quantity_bulk(read'.variants, read'.country,
                                                  read'.quantities, {}, quantity,
                                                  allocations, reservations, now) = <<>>
                            => read'.raised = <<>>]_vars

\* A read that excludes a line with a live reservation on the stocks read,
\* while another line holds one too: it gives more than the read without
\* exclusions, and less than the stocks hold.
ExcludedNeverCountedWitness ==
    /\ read.op = "get_available_quantity"
    /\ \E r, o \in not_expired(reservations, now) :
          /\ r.checkout_line \in read.checkout_lines
          /\ o.checkout_line \notin read.checkout_lines
          /\ {r.stock, o.stock} \subseteq StocksFor(read.variants[1], read.country)
    /\ read.value > get_available_quantity(read.variants[1], read.country, {}, quantity,
                                           allocations, reservations, now)
    /\ read.value < get_available_quantity(read.variants[1], read.country, {}, quantity,
                                           allocations, {}, now)

(***************************************************************************)
(* C15.  Declarative expiry: a reservation whose reserved_until the clock   *)
(* has passed reduces no availability read (get_available_quantity,         *)
(* check_stock_quantity, check_stock_quantity_bulk) and not the baseline of *)
(* a later reserve_stocks call: each gives what it gives on the table       *)
(* without the lapsed rows.  The row stays stored: it leaves the table      *)
(* only when a successful call for its own checkout line supersedes it.     *)
(***************************************************************************)
Lapsed(rows, t) == {r \in rows : r.reserved_until < t}

ExpiredNeverCounted ==
    [][LET rest == reservations \ Lapsed(reservations, now)
       IN /\ (ReadStep /\ read'.op = "get_available_quantity")
               => read'.value =
                      get_available_quantity(read'.variants[1], read'.country,
                                             read'.checkout_lines, quantity, allocations,
                                             rest, now)
          /\ (ReadStep /\ read'.op = "check_stock_quantity")
               => read'.raised =
                      check_stock_quantity(read'.variants[1], read'.country,
                                           read'.quantities[1], read'.checkout_lines,
                                           quantity, allocations, rest, now)
          /\ (ReadStep /\ read'.op = "check_stock_quantity_bulk")
               => read'.raised =
                      check_stock_quantity_bulk(read'.variants, read'.country,
                                                read'.quantities, read'.checkout_lines,
                                                quantity, allocations, rest, now)
          /\ Returns
               => \E last_allocation \in LastAllocations(toLock'["p1"], batch'["p1"]) :
                     LET r == reserve_stocks(batch'["p1"], toLock'["p1"], last_allocation,
                                             quantity, allocations, rest, now)
                     IN /\ outcome'["p1"] = r.outcome
                        /\ faults'["p1"] = r.faults
                        /\ created'["p1"] = r.created
          /\ \A r \in Lapsed(reservations, now) :
                r \notin reservations'
                   => /\ Returns
                      /\ outcome'["p1"] = "ok"
                      /\ r.checkout_line \in LinesOf(batch'["p1"])]_vars

\* The clock has passed the hold of a stored row of a line the reader does
\* not exclude, on a stock of the variant read: the read gives what the
\* stocks hold, as if the row were not there.
ExpiredNeverCountedWitness ==
    /\ read.op = "get_available_quantity"
    /\ \E r \in Lapsed(reservations, now) :
          /\ r.stock \in StocksFor(read.variants[1], read.country)
          /\ r.checkout_line \notin read.checkout_lines
    /\ read.value > 0
    /\ read.value = get_available_quantity(read.variants[1], read.country, {}, quantity,
                                           allocations, {}, now)

(***************************************************************************)
(* C16.  check_stock_quantity returns normally for a variant that does not  *)
(* track inventory; for one that does, it raises InsufficientStock exactly  *)
(* when the variant has no candidate stock in the country or the quantity   *)
(* asked is greater than the available quantity.                            *)
(***************************************************************************)
CheckRaisesIffShort ==
    [][(ReadStep /\ read'.op = "check_stock_quantity")
       => LET variant == read'.variants[1]
              short == \/ StocksFor(variant, read'.country) = {}
                       \/ read'.quantities[1] >
                              AvailableQuantity(variant, read'.country, reservations,
                                                read'.checkout_lines)
          IN IF track_inventory(variant)
             THEN (read'.raised # <<>>) <=> short
             ELSE read'.raised = <<>>]_vars

(***************************************************************************)
(* C17.  check_stock_quantity_bulk does not fail fast: it looks at every    *)
(* (variant, quantity) pair, and the variants named in the raised           *)
(* InsufficientStock are exactly the variants that are short; a sufficient  *)
(* variant is never named, and nothing is raised when no variant is short.  *)
(***************************************************************************)
Short(variant, country_code, requested, rows, lines) ==
    /\ track_inventory(variant)
    /\ \/ StocksFor(variant, country_code) = {}
       \/ requested > AvailableQuantity(variant, country_code, rows, lines)

NamedIn(raised) == {raised[i].variant : i \in 1..Len(raised)}

BulkNamesExactlyShort ==
    [][(ReadStep /\ read'.op = "check_stock_quantity_bulk")
       => NamedIn(read'.raised) =
             {read'.variants[i] : i \in {j \in 1..Len(read'.variants) :
                  Short(read'.variants[j], read'.country, read'.quantities[j],
                        reservations, read'.checkout_lines)}}]_vars

(***************************************************************************)
(* C18.  Single and bulk checks agree: for a variant that tracks inventory, *)
(* check_stock_quantity_bulk([v], country, [q], lines) raises               *)
(* InsufficientStock exactly when check_stock_quantity(v, country, q,       *)
(* lines) does.                                                             *)
(***************************************************************************)
SingleAndBulkAgree ==
    [][(/\ ReadStep
        /\ read'.op = "check_stock_quantity_bulk"
        /\ Len(read'.variants) = 1
        /\ track_inventory(read'.variants[1]))
       => ((read'.raised # <<>>)
             <=> (check_stock_quantity(read'.variants[1], read'.country,
                                       read'.quantities[1], read'.checkout_lines,
                                       quantity, allocations, reservations, now) # <<>>))]_vars

(***************************************************************************)
(* C19.  In check_stock_quantity_bulk a variant that tracks inventory and   *)
(* has no candidate stock in the country is always reported as              *)
(* insufficient, whatever quantity is asked, zero included.                 *)
(***************************************************************************)
NoStockAlwaysReported ==
    [][(ReadStep /\ read'.op = "check_stock_quantity_bulk")
       => \A i \in 1..Len(read'.variants) :
             (/\ track_inventory(read'.variants[i])
              /\ StocksFor(read'.variants[i], read'.country) = {})
                => \E k \in 1..Len(read'.raised) :
                      /\ read'.raised[k].variant = read'.variants[i]
                      /\ read'.raised[k].available_quantity = 0]_vars

\* A bulk check asked for quantity zero of a tracked variant without stock
\* in the country, next to a variant that is sufficient: only the former is
\* named.
NoStockAlwaysReportedWitness ==
    /\ read.op = "check_stock_quantity_bulk"
    /\ Len(read.variants) = 2
    /\ \E i \in 1..2 :
          /\ track_inventory(read.variants[i])
          /\ StocksFor(read.variants[i], read.country) = {}
          /\ read.quantities[i] = 0
          /\ NamedIn(read.raised) = {read.variants[i]}

(***************************************************************************)
(* C20.  A variant that does not track inventory is exempt from the         *)
(* availability checks: check_stock_quantity_bulk never names it in its     *)
(* InsufficientStock, whatever the quantity asked and whatever stock it     *)
(* has, none included, just as check_stock_quantity never raises for it.    *)
(***************************************************************************)
UntrackedNeverNamed ==
    [][ReadStep
       => /\ read'.op = "check_stock_quantity_bulk"
               => \A k \in 1..Len(read'.raised) : track_inventory(read'.raised[k].variant)
          /\ (read'.op = "check_stock_quantity" /\ ~track_inventory(read'.variants[1]))
               => read'.raised = <<>>]_vars

(***************************************************************************)
(* C21.  is_product_in_stock(product, country) is true exactly when some    *)
(* variant of the product has an available quantity above zero in the       *)
(* country, the available quantity being the clamped quantity minus         *)
(* allocations minus live reservations; it is false when every stock is     *)
(* fully allocated or fully held by live reservations.                      *)
(***************************************************************************)
InStockIffAvailable ==
    [][(ReadStep /\ read'.op = "is_product_in_stock")
       => (read'.in_stock
             <=> \E v \in {w \in Variants : variant_product(w) = read'.product} :
                    AvailableQuantity(v, read'.country, reservations, {}) > 0)]_vars

(***************************************************************************)
(* C22.  Two concurrent reserve_stocks invocations whose batches name       *)
(* disjoint sets of variants lock disjoint sets of Stock rows, so neither   *)
(* waits for the other: wherever the other stands, the next row an          *)
(* invocation asks for is not held by it.                                   *)
(***************************************************************************)
VariantsOf(b) == {LineVariant(b[i].line) : i \in 1..Len(b)}

DisjointNeverWait ==
    \A p \in Procs : \A q \in Procs \ {p} :
       (/\ pc[p] = "locking"
        /\ pc[q] = "locking"
        /\ VariantsOf(batch[p]) \cap VariantsOf(batch[q]) = {})
          => /\ Range(toLock[p]) \cap Range(toLock[q]) = {}
             /\ nlocked[p] < Len(toLock[p]) => toLock[p][nlocked[p] + 1] \notin Held(q)

\* Two invocations over disjoint variants in the same country, each with
\* rows to lock: one holds all its rows while the other still asks for one.
DisjointNeverWaitWitness ==
    /\ pc["p1"] = "locking"
    /\ pc["p2"] = "locking"
    /\ country["p1"] = country["p2"]
    /\ VariantsOf(batch["p1"]) \cap VariantsOf(batch["p2"]) = {}
    /\ Len(toLock["p2"]) >= 1
    /\ nlocked["p2"] = Len(toLock["p2"])
    /\ nlocked["p1"] < Len(toLock["p1"])

(***************************************************************************)
(* C23.  Atomic supersede as readers see it: the delete and the insert of   *)
(* a successful call are one step, so a reader sees the Reservation table   *)
(* before it or after it; a line that held a live reservation before a      *)
(* successful call that re-reserves it holds a live reservation after it.   *)
(***************************************************************************)
LiveRowsOfLine(rows, l) == {r \in RowsOfLine(rows, l) : r.reserved_until > now}

ReadersNeverSeeGap ==
    [][(Returns /\ outcome'["p1"] = "ok")
       => \A l \in TrackedLinesOf(batch'["p1"]) :
             LiveRowsOfLine(reservations, l) # {}
                => LiveRowsOfLine(reservations', l) # {}]_vars

(***************************************************************************)
(* C24.  Frame of reserve_stocks: no call, successful or failing, changes   *)
(* a Stock.quantity, the set of Stock rows or an Allocation; a call neither *)
(* deletes nor alters a reservation of a checkout line outside its batch,   *)
(* expired or not, and writes rows for the lines of its batch only.         *)
(***************************************************************************)
FrameOfReserveStocks ==
    [][/\ quantity' = quantity
       /\ DOMAIN quantity' = StockIds
       /\ allocations' = allocations
       /\ Returns =>
            /\ \A r \in reservations :
                  r.checkout_line \notin LinesOf(batch'["p1"]) => r \in reservations'
            /\ \A r \in reservations' \ reservations :
                  r.checkout_line \in LinesOf(batch'["p1"])]_vars

\* A successful call wrote rows for its line while another line's row, its
\* hold run out, stays stored as it was.
FrameOfReserveStocksWitness ==
    /\ outcome["p1"] = "ok"
    /\ created["p1"] # {}
    /\ \E o \in reservations :
          /\ o.checkout_line \notin LinesOf(batch["p1"])
          /\ o.reserved_until = TickStep
          /\ now >= TickStep
          /\ \E r \in created["p1"] : r.stock = o.stock

(***************************************************************************)
(* C25.  Baseline of reserve_stocks: the live reservations a checkout line  *)
(* outside the batch holds on stock S count against S itself, so that       *)
(* availableHere(S) = max(quantity - allocated - reserved, 0), and a        *)
(* request that needs more than the sum of availableHere over the stocks    *)
(* of its variant fails with InsufficientStock.                             *)
(***************************************************************************)
BaselineCountsOtherLines ==
    [][(/\ Returns
        /\ Len(batch'["p1"]) = 1
        /\ track_inventory(LineVariant(batch'["p1"][1].line)))
       => LET line_info == batch'["p1"][1]
              stocks == CandidateStocks({LineVariant(line_info.line)}, country'["p1"])
              available == SumOf({<<s, AvailableHere(s, {line_info.line})>> : s \in stocks})
          IN line_info.quantity > available => outcome'["p1"] = "InsufficientStock"]_vars

(***************************************************************************)
(* C26.  On a successful call, the rows created for a tracked line of the   *)
(* batch sum exactly to the quantity the line asked, and each created row   *)
(* holds at least 1 and at most availableHere = max(quantity - allocated -  *)
(* reservedBaseline, 0) of its stock.                                       *)
(***************************************************************************)
CreatedRowsFitTheirStock ==
    [][(Returns /\ outcome'["p1"] = "ok")
       => \A i \in 1..Len(batch'["p1"]) :
             LET line_info == batch'["p1"][i]
                 rows == RowsOfLine(created'["p1"], line_info.line)
             IN track_inventory(LineVariant(line_info.line))
                  => /\ SumOf({<<r, r.quantity_reserved>> : r \in rows}) = line_info.quantity
                     /\ \A r \in rows :
                           /\ r.quantity_reserved >= 1
                           /\ r.quantity_reserved
                                 <= AvailableHere(r.stock, TrackedLinesOf(batch'["p1"]))]_vars

(***************************************************************************)
(* C27.  First-fit in ascending stock identity: in the rows a successful    *)
(* call creates for a line, a stock of the line's variant gets a row only   *)
(* if every stock of the variant with a smaller identity was filled to its  *)
(* full availableHere; the rows are the same whatever order storage yields  *)
(* the stock rows in.                                                       *)
(***************************************************************************)
FirstFitByIdentity ==
    [][(Returns /\ outcome'["p1"] = "ok")
       => /\ \A l \in TrackedLinesOf(batch'["p1"]) :
                \A r \in RowsOfLine(created'["p1"], l) :
                   \A s \in CandidateStocks({LineVariant(l)}, country'["p1"]) :
                      s < r.stock
                         => ReservedIn(RowsOfLine(created'["p1"], l), s)
                               = AvailableHere(s, TrackedLinesOf(batch'["p1"]))
          /\ \A storage \in StorageOrders(batch'["p1"], country'["p1"]) :
                \A last_allocation \in LastAllocations(OrderByPk(storage), batch'["p1"]) :
                   reserve_stocks(batch'["p1"], OrderByPk(storage), last_allocation,
                                  quantity, allocations, reservations, now).created
                      = created'["p1"]]_vars

(***************************************************************************)
(* C28.  Within one batch with two or more lines of the same variant, the   *)
(* rows the call creates on any one stock sum, over all lines of the batch, *)
(* to at most that stock's availableHere; when the lines' combined demand   *)
(* exceeds what the stocks of the variant have available, the call fails.   *)
(***************************************************************************)
SharedVariant(b) ==
    \E i, j \in 1..Len(b) :
       /\ i # j
       /\ LineVariant(b[i].line) = LineVariant(b[j].line)
       /\ track_inventory(LineVariant(b[i].line))

Demand(b, v) ==
    SumOf({<<i, b[i].quantity>> : i \in {j \in 1..Len(b) : LineVariant(b[j].line) = v}})

BatchSharesStock ==
    [][(Returns /\ SharedVariant(batch'["p1"]))
       => LET lines == TrackedLinesOf(batch'["p1"])
          IN /\ outcome'["p1"] = "ok"
                  => \A s \in StockIds :
                        ReservedIn(created'["p1"], s) <= AvailableHere(s, lines)
             /\ \A v \in VariantsOf(batch'["p1"]) :
                   (/\ track_inventory(v)
                    /\ Demand(batch'["p1"], v)
                          > SumOf({<<s, AvailableHere(s, lines)>> :
                                      s \in CandidateStocks({v}, country'["p1"])}))
                      => outcome'["p1"] # "ok"]_vars

(***************************************************************************)
(* C29.  The InsufficientStock raised by check_stock_quantity_bulk holds    *)
(* exactly one entry per failing variant: no variant is listed twice, in    *)
(* particular not a tracked variant without candidate stock that is asked   *)
(* a positive quantity.                                                     *)
(***************************************************************************)
OneEntryPerVariant ==
    [][(ReadStep /\ read'.op = "check_stock_quantity_bulk")
       => \A k1, k2 \in 1..Len(read'.raised) :
             read'.raised[k1].variant = read'.raised[k2].variant => k1 = k2]_vars

(***************************************************************************)
(* C30.  The loaders keyed by an id and a channel issue exactly one listing *)
(* query per distinct channel of the key batch, however many products or    *)
(* variants the batch names for that channel; the query of a channel asks   *)
(* for every id the batch names for it.                                     *)
(***************************************************************************)
LoaderOps ==
    {"ProductChannelListingByProductIdAndChannelSlugLoader",
     "VariantChannelListingByVariantIdAndChannelLoader"}

OneQueryPerChannel ==
    [][(ReadStep /\ read'.op \in LoaderOps)
       => LET keys == read'.keys
              queries == read'.queries
              channels == {keys[i][2] : i \in 1..Len(keys)}
          IN /\ Len(queries) = Cardinality(channels)
             /\ \A c \in channels :
                   \E g \in 1..Len(queries) :
                      /\ queries[g].channel = c
                      /\ Range(queries[g].ids)
                            = {keys[i][1] : i \in {j \in 1..Len(keys) : keys[j][2] = c}}]_vars

\* A batch of three keys, two products in one channel and one in another:
\* two queries were issued.
OneQueryPerChannelWitness ==
    /\ read.op = "ProductChannelListingByProductIdAndChannelSlugLoader"
    /\ Len(read.keys) = 3
    /\ read.keys[1][2] = read.keys[3][2]
    /\ read.keys[1][1] # read.keys[3][1]
    /\ read.keys[2][2] # read.keys[1][2]
    /\ Len(read.queries) = 2

(***************************************************************************)
(* C31.  For every key batch, repeated keys and keys with no row included,  *)
(* batch_load of the loaders keyed by an id and a channel returns a list as *)
(* long as the keys whose i-th element is the listing of the i-th           *)
(* (id, channel) key, or None when no listing exists for that pair; every   *)
(* key finds a stored value, and no listing of another channel is returned. *)
(***************************************************************************)
IsNone(x) == "none" \in DOMAIN x

\* The rows of the table the loader reads, as (id, channel id, row).
ListingRows(op) ==
    IF op = "ProductChannelListingByProductIdAndChannelSlugLoader"
    THEN {<<l.product_id, l.channel_id, l>> : l \in ProductChannelListing}
    ELSE {<<l.variant_id, l.channel_id, l>> : l \in ProductVariantChannelListing}

\* Of these, the rows the loader's query selects: a variant listing needs a price.
SelectedRows(op) ==
    IF op = "ProductChannelListingByProductIdAndChannelSlugLoader"
    THEN ListingRows(op)
    ELSE {t \in ListingRows(op) : ~t[3].price_amount_isnull}

\* The rows among rows of the pair key, the channel matched on the column field.
RowsOfKey(rows, field, key) ==
    {t \in rows : /\ t[1] = key[1]
                  /\ \E c \in ChannelRows : c.id = t[2] /\ c[field] = key[2]}

\* The list returned answers the keys one by one from rows.
AnswersFrom(rows, rd) ==
    /\ Len(rd.result) = Len(rd.keys)
    /\ \A i \in 1..Len(rd.keys) :
          /\ \E g \in 1..Len(rd.queries) :
                /\ rd.queries[g].channel = rd.keys[i][2]
                /\ rd.keys[i][1] \in Range(rd.queries[g].ids)
          /\ IF RowsOfKey(rows, rd.field, rd.keys[i]) = {}
             THEN IsNone(rd.result[i])
             ELSE /\ ~IsNone(rd.result[i])
                  /\ \E t \in RowsOfKey(rows, rd.field, rd.keys[i]) : rd.result[i] = t[3]

\* The claim as stated: None exactly when the table holds no listing of the pair.
ListingOrNoneWhenAbsent ==
    [][(ReadStep /\ read'.op \in LoaderOps)
       => AnswersFrom(ListingRows(read'.op), read')]_vars

\* The claim as the code has it: the variant loaders answer None also for a
\* pair whose listing has no price.
ListingOrNoneWhenNotSelected ==
    [][(ReadStep /\ read'.op \in LoaderOps)
       => AnswersFrom(SelectedRows(read'.op), read')]_vars

\* A variant batch with a repeated key answered by its listing twice, and a
\* key whose only listing has no price, answered None.
ListingOrNoneWhenNotSelectedWitness ==
    /\ read.op = "VariantChannelListingByVariantIdAndChannelLoader"
    /\ Len(read.keys) = 3
    /\ read.keys[1] = read.keys[2]
    /\ ~IsNone(read.result[1])
    /\ read.result[2] = read.result[1]
    /\ RowsOfKey(ListingRows(read.op), read.field, read.keys[3]) # {}
    /\ IsNone(read.result[3])
====
